---- MODULE Spec2Model ----
(***************************************************************************)
(* The contact-form relay of contact-form/app.py: the POST /email handler, *)
(* the mail it builds, the call to the mail provider, the send_email span  *)
(* and the HTTP answer.  Several requests may be in flight; each runs the  *)
(* handler's statements in program order, interleaved with the others.     *)
(*                                                                         *)
(* Text is a sequence of pieces (each piece a string of one or more        *)
(* characters); an f-string and "+" are concatenation \o.  An optional     *)
(* value (Python None, an unbound local) is a sequence of length 0 or 1.   *)
(***************************************************************************)
EXTENDS Integers, Sequences, FiniteSets, TLC

\* Number of clients posting to /email at the same time.
NumReqs == 2

Reqs == 1..NumReqs

VARIABLES env, pending, pc, message_data, span, message, sent, reply,
          response, exc, log, result

vars == <<env, pending, pc, message_data, span, message, sent, reply,
          response, exc, log, result>>

----------------------------------------------------------------------------
\* Values

None == <<>>
Some(v) == <<v>>

\* The keys the handler reads from the submission.
FieldNames == {"name", "email", "subject", "message"}

\* The characters of each key, as repr() prints them in a KeyError.
KeyChars ==
    [name    |-> <<"n", "a", "m", "e">>,
     email   |-> <<"e", "m", "a", "i", "l">>,
     subject |-> <<"s", "u", "b", "j", "e", "c", "t">>,
     message |-> <<"m", "e", "s", "s", "a", "g", "e">>]

\* Addresses the process environment may configure (or leave unset).
OpsAddr == <<"o", "@", "s">>
NoReplyAddr == <<"n", "@", "s">>

\* A message that itself carries a line break and a signature.
SignedMessage == <<"y", "<", "b", "r", " ", "/", ">", "F", "r", "o", "m", ":", " ", "E">>

\* What the submitter may put in each field.
FieldValues ==
    [name    |-> {<<>>, <<"A", "n", "n">>},
     email   |-> {<<"a", "@", "x">>, OpsAddr},
     subject |-> {<<>>, <<"H", "i">>},
     message |-> {<<"H", "e", "y">>, SignedMessage}]

\* JSON objects with any subset of the four fields.
Objects ==
    UNION {[ks -> UNION {FieldValues[k] : k \in FieldNames}] : ks \in SUBSET FieldNames}

WellTyped(f) == \A k \in DOMAIN f : f[k] \in FieldValues[k]

ObjectBody(f) == [kind |-> "object", fields |-> f]
ListBody == [kind |-> "list", fields |-> <<>>]
InvalidBody == [kind |-> "invalid", fields |-> <<>>]
NoRequest == [kind |-> "none", fields |-> <<>>]

\* Every body a lone client may post.
RichBodies ==
    {ObjectBody(f) : f \in {g \in Objects : WellTyped(g)}} \cup {ListBody, InvalidBody}

\* Two complete submissions that differ in every field.
Profile(p) ==
    IF p = 1
    THEN [name |-> <<"A", "n", "n">>, email |-> <<"a", "@", "x">>,
          subject |-> <<"H", "i">>, message |-> <<"H", "e", "y">>]
    ELSE [name |-> <<>>, email |-> OpsAddr, subject |-> <<>>, message |-> SignedMessage]

Without(f, k) == [j \in (DOMAIN f) \ {k} |-> f[j]]

\* The bodies concurrent clients post.
ConcBodies ==
    {ObjectBody(Profile(p)) : p \in {1, 2}}
    \cup {ObjectBody(Without(Profile(p), k)) : p \in {1, 2}, k \in FieldNames}
    \cup {ListBody, InvalidBody}

\* Status codes the provider answers with, and the texts of the errors it raises.
Codes == {200, 202}
ErrTexts == {<<"4", "0", "1">>, <<"t", "i", "m", "e", "d", " ", "o", "u", "t">>}

Envs ==
    [to : {None, Some(OpsAddr)},
     from : {None, Some(OpsAddr), Some(NoReplyAddr)},
     key : {None, Some(<<"k">>)}]

ConcEnv == [to |-> Some(OpsAddr), from |-> Some(NoReplyAddr), key |-> Some(<<"k">>)]

StrAttr(s) == [kind |-> "str", val |-> s]
IntAttr(n) == [kind |-> "int", val |-> n]

NewSpan == [started |-> FALSE, ended |-> FALSE, attrs |-> <<>>,
            status |-> [code |-> "UNSET", description |-> None]]

\* span.set_attribute(key, value)
SetAttribute(sp, key, value) ==
    [sp EXCEPT !.attrs = [k \in (DOMAIN sp.attrs) \cup {key} |->
                            IF k = key THEN value ELSE sp.attrs[k]]]

\* span.set_status(trace.Status(code, description))
SetStatus(sp, code, description) ==
    [sp EXCEPT !.status = [code |-> code, description |-> description]]

\* Leaving the "with" block ends the span.
EndSpan(sp) == [sp EXCEPT !.ended = TRUE]

----------------------------------------------------------------------------
\* Pure parts of the handler

\* str(KeyError(key)) is the repr of the key, quotes included.
KeyErrorText(key) == <<"'">> \o KeyChars[key] \o <<"'">>

\* str(TypeError) of indexing a list with a string.
ListIndexText ==
    <<"l", "i", "s", "t", " ", "i", "n", "d", "i", "c", "e", "s", " ",
      "m", "u", "s", "t", " ", "b", "e", " ",
      "i", "n", "t", "e", "g", "e", "r", "s", " ", "o", "r", " ",
      "s", "l", "i", "c", "e", "s", ",", " ", "n", "o", "t", " ", "s", "t", "r">>

\* A lookup that never raises: data.get(key, "").
GetItemDefault(data, key) ==
    IF data.kind = "object" /\ key \in DOMAIN data.fields
    THEN [ok |-> TRUE, val |-> data.fields[key], err |-> None]
    ELSE [ok |-> TRUE, val |-> <<>>, err |-> None]

\* message_data[key]: the value, or the error the subscript raises.
GetItem(data, key) ==
    IF data.kind = "object"
    THEN IF key \in DOMAIN data.fields
         THEN [ok |-> TRUE, val |-> data.fields[key], err |-> None]
         ELSE [ok |-> FALSE, val |-> <<>>, err |-> Some(KeyErrorText(key))]
    ELSE [ok |-> FALSE, val |-> <<>>, err |-> Some(ListIndexText)]

\* A body that drops the line break.
HtmlContentNoBreak(msg, name) == msg \o <<"F", "r", "o", "m", ":", " ">> \o name

\* f"{message_data['message']}<br />From: {message_data['name']}"
HtmlContent(msg, name) ==
    msg \o <<"<", "b", "r", " ", "/", ">", "F", "r", "o", "m", ":", " ">> \o name

\* A success result that reports a fixed code.
SuccessResultFixed(resp) == [http |-> 200, status |-> "success", code |-> 200]

\* {"status": "success", "code": response.status_code}, answered with HTTP 200.
SuccessResult(resp) == [http |-> 200, status |-> "success", code |-> resp.status_code]

\* A failure that hides the cause.
ErrorResultGeneric(e) ==
    [http |-> 500,
     detail |-> <<"S", "e", "n", "d", "G", "r", "i", "d", " ", "E", "r", "r", "o", "r">>]

\* HTTPException(status_code=500, detail=f"SendGrid Error: {str(e)}")
ErrorResult(e) ==
    [http |-> 500,
     detail |-> <<"S", "e", "n", "d", "G", "r", "i", "d", " ",
                  "E", "r", "r", "o", "r", ":", " ">> \o e]

\* Mail(to_emails=..., from_email=..., subject=..., html_content=...)
Mail(to, from, subject, html) ==
    [to_emails |-> to, from_email |-> from, subject |-> subject,
     html_content |-> html, reply_to |-> None]

----------------------------------------------------------------------------
\* State

Init ==
    /\ \/ /\ env \in Envs
          /\ \E b \in RichBodies :
                pending = [r \in Reqs |-> IF r = 1 THEN b ELSE NoRequest]
       \/ /\ env = ConcEnv
          /\ pending \in [Reqs -> ConcBodies]
    /\ pc = [r \in Reqs |-> "idle"]
    /\ message_data = [r \in Reqs |-> None]
    /\ span = [r \in Reqs |-> NewSpan]
    /\ message = [r \in Reqs |-> None]
    /\ sent = [r \in Reqs |-> <<>>]
    /\ reply = [r \in Reqs |-> None]
    /\ response = [r \in Reqs |-> None]
    /\ exc = [r \in Reqs |-> None]
    /\ log = [r \in Reqs |-> <<>>]
    /\ result = [r \in Reqs |-> None]

\* A submission kept in one module-level variable: the latest request's.
DataShared(r) ==
    message_data[CHOOSE q \in Reqs :
                    /\ message_data[q] # None
                    /\ \A p \in Reqs : message_data[p] # None => p <= q][1]

\* The handler's local message_data.
Data(r) == message_data[r][1]

\* An exception raised inside the try block reaches the except clause as e.
Raise(r, text) ==
    /\ exc' = [exc EXCEPT ![r] = Some(text)]
    /\ pc' = [pc EXCEPT ![r] = "except"]

Logged(r, level, msg, arg) ==
    log' = [log EXCEPT ![r] = Append(@, [level |-> level, msg |-> msg, arg |-> arg])]

----------------------------------------------------------------------------
\* The handler, statement by statement

\* message_data = await request.json(); logger.info(...)
Receive(r) ==
    /\ pc[r] = "idle"
    /\ pending[r].kind # "none"
    /\ IF pending[r].kind = "invalid"
       THEN /\ pc' = [pc EXCEPT ![r] = "unhandled"]
            /\ UNCHANGED <<message_data, log>>
       ELSE /\ message_data' = [message_data EXCEPT ![r] = Some(pending[r])]
            /\ Logged(r, "INFO", "Received contact form data: ", pending[r])
            /\ pc' = [pc EXCEPT ![r] = "span"]
    /\ UNCHANGED <<env, pending, span, message, sent, reply, response, exc, result>>

\* with tracer.start_as_current_span("send_email") as span:
StartSpan(r) ==
    /\ pc[r] = "span"
    /\ span' = [span EXCEPT ![r].started = TRUE]
    /\ pc' = [pc EXCEPT ![r] = "attrSubject"]
    /\ UNCHANGED <<env, pending, message_data, message, sent, reply, response, exc,
                   log, result>>

\* span.set_attribute("email.subject", message_data["subject"])
SetSubjectAttr(r) ==
    /\ pc[r] = "attrSubject"
    /\ LET s == GetItem(Data(r), "subject") IN
         IF s.ok
         THEN /\ span' = [span EXCEPT ![r] = SetAttribute(@, "email.subject", StrAttr(s.val))]
              /\ pc' = [pc EXCEPT ![r] = "attrFrom"]
              /\ UNCHANGED exc
         ELSE /\ Raise(r, s.err[1])
              /\ UNCHANGED span
    /\ UNCHANGED <<env, pending, message_data, message, sent, reply, response, log, result>>

\* The lookup without the attribute.
SetFromAttrSkipped(r) ==
    /\ pc[r] = "attrFrom"
    /\ LET e == GetItem(Data(r), "email") IN
         IF e.ok
         THEN /\ pc' = [pc EXCEPT ![r] = "build"]
              /\ UNCHANGED exc
         ELSE Raise(r, e.err[1])
    /\ UNCHANGED <<env, pending, message_data, span, message, sent, reply, response,
                   log, result>>

\* span.set_attribute("email.from", message_data["email"])
SetFromAttr(r) ==
    /\ pc[r] = "attrFrom"
    /\ LET e == GetItem(Data(r), "email") IN
         IF e.ok
         THEN /\ span' = [span EXCEPT ![r] = SetAttribute(@, "email.from", StrAttr(e.val))]
              /\ pc' = [pc EXCEPT ![r] = "build"]
              /\ UNCHANGED exc
         ELSE /\ Raise(r, e.err[1])
              /\ UNCHANGED span
    /\ UNCHANGED <<env, pending, message_data, message, sent, reply, response, log, result>>

\* message = Mail(...): the arguments are evaluated in order, subject, then
\* message, then name; the first failing lookup raises.
BuildMail(r) ==
    /\ pc[r] = "build"
    /\ LET s == GetItem(Data(r), "subject")
           m == GetItem(Data(r), "message")
           n == GetItem(Data(r), "name")
       IN  IF s.ok /\ m.ok /\ n.ok
           THEN /\ message' = [message EXCEPT ![r] =
                                 Some(Mail(env.to, env.from, s.val, HtmlContent(m.val, n.val)))]
                /\ pc' = [pc EXCEPT ![r] = "replyTo"]
                /\ UNCHANGED exc
           ELSE /\ Raise(r, IF ~s.ok THEN s.err[1] ELSE IF ~m.ok THEN m.err[1] ELSE n.err[1])
                /\ UNCHANGED message
    /\ UNCHANGED <<env, pending, message_data, span, sent, reply, response, log, result>>

\* A reply-to taken from the configured sender.
SetReplyToSender(r) ==
    /\ pc[r] = "replyTo"
    /\ message' = [message EXCEPT ![r] = Some([message[r][1] EXCEPT !.reply_to = env.from])]
    /\ pc' = [pc EXCEPT ![r] = "dispatch"]
    /\ UNCHANGED <<env, pending, message_data, span, sent, reply, response, exc, log, result>>

\* message.reply_to = message_data["email"]
SetReplyTo(r) ==
    /\ pc[r] = "replyTo"
    /\ LET e == GetItem(Data(r), "email") IN
         IF e.ok
         THEN /\ message' = [message EXCEPT ![r] = Some([message[r][1] EXCEPT !.reply_to = Some(e.val)])]
              /\ pc' = [pc EXCEPT ![r] = "dispatch"]
              /\ UNCHANGED exc
         ELSE /\ Raise(r, e.err[1])
              /\ UNCHANGED message
    /\ UNCHANGED <<env, pending, message_data, span, sent, reply, response, log, result>>

\* sg = SendGridAPIClient(os.environ.get("SENDGRID_API_KEY")); sg.send(message)
\* is entered: the mail is in the provider's hands.
Dispatch(r) ==
    /\ pc[r] = "dispatch"
    /\ sent' = [sent EXCEPT ![r] = Append(@, [mail |-> message[r][1], api_key |-> env.key])]
    /\ pc' = [pc EXCEPT ![r] = "inSend"]
    /\ UNCHANGED <<env, pending, message_data, span, message, reply, response, exc,
                   log, result>>

\* sg.send returns a response with status code c.
ProviderReturn(r, c) ==
    /\ pc[r] = "inSend"
    /\ reply' = [reply EXCEPT ![r] = Some([kind |-> "returned", code |-> c, text |-> <<>>])]
    /\ response' = [response EXCEPT ![r] = Some([status_code |-> c])]
    /\ pc' = [pc EXCEPT ![r] = "sent"]
    /\ UNCHANGED <<env, pending, message_data, span, message, sent, exc, log, result>>

\* A failed send that is tried once more.
ProviderRaiseRetry(r, t) ==
    /\ pc[r] = "inSend"
    /\ reply' = [reply EXCEPT ![r] = Some([kind |-> "raised", code |-> 0, text |-> t])]
    /\ IF Len(sent[r]) < 2
       THEN /\ pc' = [pc EXCEPT ![r] = "dispatch"]
            /\ UNCHANGED exc
       ELSE Raise(r, t)
    /\ UNCHANGED <<env, pending, message_data, span, message, sent, response, log, result>>

\* sg.send raises an error whose text is t.
ProviderRaise(r, t) ==
    /\ pc[r] = "inSend"
    /\ reply' = [reply EXCEPT ![r] = Some([kind |-> "raised", code |-> 0, text |-> t])]
    /\ Raise(r, t)
    /\ UNCHANGED <<env, pending, message_data, span, message, sent, response, log, result>>

\* The success branch with the response code put on the span as well.
RecordSuccessWithCode(r) ==
    /\ pc[r] = "sent"
    /\ Logged(r, "INFO", "SendGrid response: ", IntAttr(response[r][1].status_code))
    /\ span' = [span EXCEPT ![r] =
                  SetStatus(SetAttribute(SetAttribute(@, "email.status",
                                                      StrAttr(<<"s", "u", "c", "c", "e", "s", "s">>)),
                                         "email.code", IntAttr(response[r][1].status_code)),
                            "OK", None)]
    /\ pc' = [pc EXCEPT ![r] = "return"]
    /\ UNCHANGED <<env, pending, message_data, message, sent, reply, response, exc, result>>

\* logger.info(f"SendGrid response: ..."); span.set_attribute("email.status",
\* "success"); span.set_status(trace.Status(trace.StatusCode.OK))
RecordSuccess(r) ==
    /\ pc[r] = "sent"
    /\ Logged(r, "INFO", "SendGrid response: ", IntAttr(response[r][1].status_code))
    /\ span' = [span EXCEPT ![r] =
                  SetStatus(SetAttribute(@, "email.status",
                                         StrAttr(<<"s", "u", "c", "c", "e", "s", "s">>)),
                            "OK", None)]
    /\ pc' = [pc EXCEPT ![r] = "return"]
    /\ UNCHANGED <<env, pending, message_data, message, sent, reply, response, exc, result>>

\* return {"status": "success", "code": response.status_code}; the with block
\* is left and the span ends.
ReturnSuccess(r) ==
    /\ pc[r] = "return"
    /\ result' = [result EXCEPT ![r] = Some(SuccessResult(response[r][1]))]
    /\ span' = [span EXCEPT ![r] = EndSpan(@)]
    /\ pc' = [pc EXCEPT ![r] = "done"]
    /\ UNCHANGED <<env, pending, message_data, message, sent, reply, response, exc, log>>

\* An except clause that leaves the span's status alone.
HandleErrorNoStatus(r) ==
    /\ pc[r] = "except"
    /\ Logged(r, "ERROR", "Error sending email", StrAttr(exc[r][1]))
    /\ span' = [span EXCEPT ![r] =
                  SetAttribute(SetAttribute(@, "email.status", StrAttr(<<"e", "r", "r", "o", "r">>)),
                               "email.error", StrAttr(exc[r][1]))]
    /\ pc' = [pc EXCEPT ![r] = "raise"]
    /\ UNCHANGED <<env, pending, message_data, message, sent, reply, response, exc, result>>

\* except Exception as e: logger.error(...); span.set_attribute("email.status",
\* "error"); span.set_attribute("email.error", str(e));
\* span.set_status(trace.Status(trace.StatusCode.ERROR, str(e)))
HandleError(r) ==
    /\ pc[r] = "except"
    /\ Logged(r, "ERROR", "Error sending email", StrAttr(exc[r][1]))
    /\ span' = [span EXCEPT ![r] =
                  SetStatus(SetAttribute(SetAttribute(@, "email.status",
                                                      StrAttr(<<"e", "r", "r", "o", "r">>)),
                                         "email.error", StrAttr(exc[r][1])),
                            "ERROR", Some(exc[r][1]))]
    /\ pc' = [pc EXCEPT ![r] = "raise"]
    /\ UNCHANGED <<env, pending, message_data, message, sent, reply, response, exc, result>>

\* raise HTTPException(status_code=500, detail=...); the with block is left
\* and the span ends.
RaiseHTTP(r) ==
    /\ pc[r] = "raise"
    /\ result' = [result EXCEPT ![r] = Some(ErrorResult(exc[r][1]))]
    /\ span' = [span EXCEPT ![r] = EndSpan(@)]
    /\ pc' = [pc EXCEPT ![r] = "done"]
    /\ UNCHANGED <<env, pending, message_data, message, sent, reply, response, exc, log>>

Next ==
    \E r \in Reqs :
        \/ Receive(r)
        \/ StartSpan(r)
        \/ SetSubjectAttr(r)
        \/ SetFromAttr(r)
        \/ BuildMail(r)
        \/ SetReplyTo(r)
        \/ Dispatch(r)
        \/ \E c \in Codes : ProviderReturn(r, c)
        \/ \E t \in ErrTexts : ProviderRaise(r, t)
        \/ RecordSuccess(r)
        \/ ReturnSuccess(r)
        \/ HandleError(r)
        \/ RaiseHTTP(r)

Spec == Init /\ [][Next]_vars

----------------------------------------------------------------------------
\* Vocabulary of the properties

Complete(b) == b.kind = "object" /\ DOMAIN b.fields = FieldNames
MissingField(b) == b.kind = "object" /\ DOMAIN b.fields # FieldNames

Returned(r) == reply[r] # None /\ reply[r][1].kind = "returned"
Raised(r) == reply[r] # None /\ reply[r][1].kind = "raised"

Contains(s, t) == \E i \in 0..(Len(s) - Len(t)) : SubSeq(s, i + 1, i + Len(t)) = t

LineBreak == <<"<", "b", "r", " ", "/", ">">>
FromLabel == <<"F", "r", "o", "m", ":", " ">>
DetailPrefix == <<"S", "e", "n", "d", "G", "r", "i", "d", " ", "E", "r", "r", "o", "r", ":", " ">>
SuccessWord == <<"s", "u", "c", "c", "e", "s", "s">>
ErrorWord == <<"e", "r", "r", "o", "r">>

HasAttr(sp, k) == k \in DOMAIN sp.attrs
AttrIs(sp, k, v) == HasAttr(sp, k) /\ sp.attrs[k] = v

IsSuccess(res) == res.http = 200 /\ res.status = "success"

----------------------------------------------------------------------------
\* C1: a request whose body has all four fields and whose send returned code c
\* is answered HTTP 200 with {status: "success", code: c}, c being the code
\* the provider returned for that very request.
C1_SuccessCarriesProviderCode ==
    \A r \in Reqs :
        (Complete(pending[r]) /\ Returned(r) /\ pc[r] = "done")
            => result[r] = Some([http |-> 200, status |-> "success",
                                 code |-> reply[r][1].code])

C1_Witness ==
    \E r \in Reqs :
        /\ Complete(pending[r]) /\ Returned(r) /\ pc[r] = "done"
        /\ reply[r][1].code = 202

\* C2: when the provider's send raises an error with text t, the answer is
\* HTTP 500, is no success result, and its detail contains t.
C2_ProviderErrorIs500WithText ==
    \A r \in Reqs :
        (Raised(r) /\ pc[r] = "done")
            => /\ result[r] # None
               /\ result[r][1].http = 500
               /\ "status" \notin DOMAIN result[r][1]
               /\ Contains(result[r][1].detail, reply[r][1].text)

C2_Witness ==
    \E r \in Reqs :
        /\ Raised(r) /\ pc[r] = "done"
        /\ reply[r][1].text = <<"t", "i", "m", "e", "d", " ", "o", "u", "t">>

\* C3: a submission that lacks one or more of the four fields never reaches
\* the provider, and the answer it gets is a failure, whichever field lacks.
C3_MissingFieldNeverSent ==
    \A r \in Reqs :
        MissingField(pending[r])
            => /\ sent[r] = <<>>
               /\ reply[r] = None
               /\ pc[r] \notin {"dispatch", "inSend", "sent", "return"}
               /\ pc[r] = "done" => (result[r] # None /\ result[r][1].http = 500)

C3_Witness ==
    \E r \in Reqs :
        /\ pending[r].kind = "object"
        /\ DOMAIN pending[r].fields = FieldNames \ {"name"}
        /\ pc[r] = "done"
        /\ result[r][1].http = 500

\* C4: within one request the provider's send is invoked at most once, and a
\* request whose send failed goes on to its failure answer without another
\* invocation.
C4_AtMostOneDispatch ==
    \A r \in Reqs :
        /\ Len(sent[r]) <= 1
        /\ Raised(r) => (Len(sent[r]) = 1 /\ pc[r] \in {"except", "raise", "done"})
        /\ (Raised(r) /\ pc[r] = "done") => (result[r] # None /\ result[r][1].http = 500)

C4_Witness ==
    \E r \in Reqs : Raised(r) /\ pc[r] = "done" /\ Len(sent[r]) = 1

\* C5: with several requests in flight, the mail each request hands to the
\* provider is built from its own submission, and its answer follows from its
\* own submission and its own provider outcome, never from another request's.
FirstFailingKey(f) ==
    IF "subject" \notin DOMAIN f THEN "subject"
    ELSE IF "email" \notin DOMAIN f THEN "email"
    ELSE IF "message" \notin DOMAIN f THEN "message"
    ELSE "name"

OwnAnswer(b, rep) ==
    IF rep # None
    THEN IF rep[1].kind = "returned"
         THEN [http |-> 200, status |-> "success", code |-> rep[1].code]
         ELSE [http |-> 500, detail |-> DetailPrefix \o rep[1].text]
    ELSE IF b.kind = "list"
         THEN [http |-> 500, detail |-> DetailPrefix \o ListIndexText]
         ELSE [http |-> 500,
               detail |-> DetailPrefix \o <<"'">> \o KeyChars[FirstFailingKey(b.fields)] \o <<"'">>]

C5_RequestsIndependent ==
    \A r \in Reqs :
        /\ \A i \in 1..Len(sent[r]) :
              /\ Complete(pending[r])
              /\ sent[r][i].mail.subject = pending[r].fields.subject
              /\ sent[r][i].mail.html_content =
                    pending[r].fields.message \o LineBreak \o FromLabel \o pending[r].fields.name
              /\ sent[r][i].mail.reply_to = Some(pending[r].fields.email)
        /\ result[r] # None => result[r][1] = OwnAnswer(pending[r], reply[r])

C5_Witness ==
    \E r \in Reqs : \E q \in Reqs \ {r} :
        /\ pc[r] = "done" /\ Returned(r)
        /\ pc[q] = "done" /\ Raised(q)
        /\ sent[r][1].mail.html_content # sent[q][1].mail.html_content
        /\ sent[r][1].mail.reply_to # sent[q][1].mail.reply_to

\* C6: the HTML body of every mail handed to the provider is the submission's
\* message, then "<br />", then "From: " and the submission's name, and the
\* subject is the submission's subject unchanged.
C6_BodyEndsWithFromName ==
    \A r \in Reqs : \A i \in 1..Len(sent[r]) :
        /\ sent[r][i].mail.html_content =
              pending[r].fields.message \o LineBreak \o FromLabel
                  \o pending[r].fields.name
        /\ sent[r][i].mail.subject = pending[r].fields.subject

C6_Witness ==
    \E r \in Reqs :
        /\ sent[r] # <<>>
        /\ pending[r].fields.message = SignedMessage
        /\ pending[r].fields.name = <<"A", "n", "n">>

\* C7: the reply-to of every mail handed to the provider is the submitter's
\* email field, whatever sender and recipient the environment configures.
C7_ReplyToIsSubmitter ==
    \A r \in Reqs : \A i \in 1..Len(sent[r]) :
        /\ sent[r][i].mail.reply_to = Some(pending[r].fields.email)
        /\ sent[r][i].mail.from_email = env.from
        /\ sent[r][i].mail.to_emails = env.to

C7_Witness ==
    \E r \in Reqs :
        /\ sent[r] # <<>>
        /\ env.from = Some(NoReplyAddr)
        /\ env.to = Some(OpsAddr)
        /\ sent[r][1].mail.reply_to = Some(<<"a", "@", "x">>)

\* C8 as stated: once the send has returned and the outcome is recorded, the
\* span has an attribute holding the provider's response code.
C8_SpanCarriesResponseCode ==
    \A r \in Reqs :
        (Returned(r) /\ pc[r] \in {"return", "done"})
            => \E k \in DOMAIN span[r].attrs :
                  /\ span[r].attrs[k].kind = "int"
                  /\ span[r].attrs[k].val = reply[r][1].code

\* C8 amended: once the send has returned and the outcome is recorded, the
\* span's attributes are exactly email.subject, email.from and email.status,
\* email.status being "success"; the response code is in the log record and,
\* once answered, in the result, and in no span attribute.
C8_SpanCarriesStatusOnly ==
    \A r \in Reqs :
        (Returned(r) /\ pc[r] \in {"return", "done"})
            => /\ DOMAIN span[r].attrs = {"email.subject", "email.from", "email.status"}
               /\ span[r].attrs["email.status"] = StrAttr(SuccessWord)
               /\ \A k \in DOMAIN span[r].attrs : span[r].attrs[k].kind = "str"
               /\ \E j \in 1..Len(log[r]) :
                     /\ log[r][j].level = "INFO"
                     /\ log[r][j].msg = "SendGrid response: "
                     /\ log[r][j].arg = IntAttr(reply[r][1].code)
               /\ pc[r] = "done" => result[r][1].code = reply[r][1].code

C8_Witness ==
    \E r \in Reqs : Returned(r) /\ pc[r] = "done" /\ reply[r][1].code = 202

\* C9: when the span has ended, it is OK with email.status "success" exactly
\* when the answer is the success result, and it is ERROR with the error text
\* as description, email.status "error" and email.error the error text
\* exactly when the answer is HTTP 500.
SpanSaysOk(sp) ==
    /\ sp.status.code = "OK"
    /\ AttrIs(sp, "email.status", StrAttr(SuccessWord))

SpanSaysError(sp) ==
    /\ sp.status.code = "ERROR"
    /\ sp.status.description # None
    /\ AttrIs(sp, "email.status", StrAttr(ErrorWord))
    /\ AttrIs(sp, "email.error", StrAttr(sp.status.description[1]))

StatusRecorded(sp) == sp.status.code # "UNSET" \/ HasAttr(sp, "email.status")

C10_Step ==
    \A r \in Reqs :
        /\ sent'[r] # sent[r] =>
              /\ AttrIs(span[r], "email.subject", StrAttr(pending[r].fields.subject))
              /\ AttrIs(span[r], "email.from", StrAttr(pending[r].fields.email))
              /\ ~StatusRecorded(span[r])
              /\ ~StatusRecorded(span'[r])
        /\ (sent[r] # <<>> /\ ~StatusRecorded(span[r]) /\ StatusRecorded(span'[r]))
              => reply[r] # None

C10_AttributesBeforeStatusAfter == [][C10_Step]_vars

C10_Witness ==
    \E r \in Reqs :
        /\ sent[r] # <<>> /\ Raised(r)
        /\ StatusRecorded(span[r])
        /\ HasAttr(span[r], "email.subject") /\ HasAttr(span[r], "email.from")

====
